---- MODULE Spec2Model ----
(***************************************************************************)
(* Kafka execution logger of n8n: the delivery pipeline (message queue,    *)
(* circuit breaker, producer wrapper, error classifier, fallback log) and  *)
(* the service that orchestrates them.                                     *)
(*                                                                         *)
(* Every await of the TypeScript code is a scheduling point: a handler is  *)
(* modelled by one action per synchronous stretch between two awaits.  The *)
(* settlement of a library promise and the continuation that handles it    *)
(* form one action, parameterised by the outcome of the library call.      *)
(***************************************************************************)
EXTENDS Integers, Sequences, FiniteSets, TLC

\* ---------------------------------------------------------------- bounds
MaxRecords == 4        \* records the host hands to the pipeline
MaxSize == 3           \* config.queue.maxSize
BatchSize == 2         \* config.queue.batchSize
FailureThreshold == 2  \* config.circuitBreaker.failureThreshold
ResetTimeout == 1      \* config.circuitBreaker.resetTimeout (clock units)
MonitoringPeriod == 2  \* config.circuitBreaker.monitoringPeriod
MaxTime == 2           \* the clock runs from 0 to MaxTime
MaxCalls == 3          \* library connect/send calls in one behaviour
MaxFlush == 2          \* timer-started flushes that may overlap
MaxSignals == 4        \* server-started and shutdown signals in one behaviour
MaxEnqueues == 5       \* enqueue calls on a queue driven on its own
MaxDequeues == 3       \* dequeue and dequeueBatch calls on that queue
MaxTrials == 6         \* operations run through a breaker watched for its waits
MaxClock == 4          \* the clock of that breaker runs from 0 to MaxClock
MaxWrapperCalls == 4   \* calls made on a producer wrapper driven on its own
MaxFiles == 2          \* fallbackConfig.maxFiles
MaxFileSize == 3       \* fallbackConfig.maxFileSize, in characters
MaxAppends == 5        \* logToFallback calls on an error handler driven on its own
MaxRestarts == 1       \* error handlers constructed over the same log directory
MaxBatchCalls == 4     \* library calls of a logger watched for its overlapping flushes

\* ------------------------------------------------------------- constants
BackoffCap == 8
NoTime == -1           \* an undefined Date (nextAttemptTime?: Date)
NoMessage == 0         \* the null dequeue() returns

Records == 1..MaxRecords
ShutdownSlot == 0
TimerSlots == 1..MaxFlush
FlushSlots == {ShutdownSlot} \cup TimerSlots

Min(a, b) == IF a < b THEN a ELSE b
Max(a, b) == IF a > b THEN a ELSE b

VARIABLES
    now,             \* Date.now()
    isInitialized,   \* KafkaExecutionLogger.isInitialized
    isShuttingDown,  \* KafkaExecutionLogger.isShuttingDown
    enabled,         \* KafkaExecutionLogger.config.enabled
    flushTimer,      \* KafkaExecutionLogger.flushTimer is set
    messageQueue,    \* MessageQueue.messages
    circuitBreaker,  \* the CircuitBreaker's fields
    kafkaProducer,   \* KafkaProducerWrapper: connected, producer # null
    healthMetrics,   \* HealthMetrics: successCount, failureCount
    fallbackLog,     \* entries appended to the fallback files
    initPc,          \* position of initialize()
    shutdownPc,      \* position of shutdown()
    flushes,         \* position and batch of each flushQueuedMessages()
    sending,         \* records whose immediate send is awaited
    nextRec,         \* next record the host will hand over
    accepted,        \* records that passed the handler's enabled guard
    delivered,       \* records the Kafka library acknowledged
    producerCalls,   \* library connect/send calls made so far
    discarded,       \* records dropped on an error that allows no fallback
    thrown,          \* error of the latest CircuitBreaker.execute rejection
    teardown,        \* the latest shutdown(): what it found when it began
    integration,     \* KafkaExecutionLoggerIntegrationService and its handlers
    hook,            \* the latest lifecycle hook call and what the host saw of it
    queueLog,        \* what a MessageQueue driven on its own was asked and gave
    backoff,         \* the waits a CircuitBreaker driven on its own has set
    wrapper,         \* the calls pending on a KafkaProducerWrapper driven on its own
    logFiles,        \* the fallback log files of an ErrorHandler driven on its own
    disconnectCalls  \* kafkaProducer.disconnect() calls since initialize()

vars == <<now, isInitialized, isShuttingDown, enabled, flushTimer,
          messageQueue, circuitBreaker, kafkaProducer, healthMetrics,
          fallbackLog, initPc, shutdownPc, flushes, sending, nextRec,
          accepted, delivered, producerCalls, discarded, thrown,
          teardown, integration, hook, queueLog, backoff, wrapper, logFiles, disconnectCalls>>

\* ------------------------------------------------------ error messages
\* An error message is the set of the lower-cased words and phrases it
\* contains; String.includes(k) holds when k occurs inside one of them.
SubstringPairs ==
    { <<"auth", "authentication">>, <<"auth", "unauthorized">>,
      <<"connect", "connection">>, <<"connect", "connected">>,
      <<"produce", "producer">>, <<"invalid", "invalid message format">>,
      <<"circuit", "circuit breaker">>, <<"queue", "message queue">>,
      <<"send", "sending">> }

includes(message, keyword) ==
    \E t \in message : t = keyword \/ <<keyword, t>> \in SubstringPairs

\* errors the Kafka library raises
ErrAuthentication == {"sasl", "authentication", "failed"}
ErrConnRefused == {"connect", "econnrefused"}
ErrInvalidTopic == {"invalid", "topic"}
ErrCircularJson == {"converting", "circular", "structure", "to", "json"}
ErrBrokerDown == {"broker", "not", "available"}
\* errors withTimeout raises
ErrConnectTimeout == {"kafka", "producer", "connection", "timeout"}
ErrSendTimeout == {"kafka", "message", "send", "timeout"}
ErrBatchTimeout == {"kafka", "batch", "send", "timeout"}
ErrDisconnectTimeout == {"kafka", "producer", "disconnect", "timeout"}
\* errors the pipeline raises itself
ErrCircuitOpen == {"circuit breaker", "is", "open"}
ErrNotConnected == {"kafka", "producer", "is", "not", "connected"}

ConnectErrors ==
    {ErrAuthentication, ErrConnRefused, ErrInvalidTopic, ErrBrokerDown,
     ErrConnectTimeout}
\* the send errors of a wrapper that does not arm withTimeout
SendErrorsNoTimeout(n) ==
    {ErrAuthentication, ErrConnRefused, ErrInvalidTopic, ErrCircularJson,
     ErrBrokerDown}

SendErrors(n) ==
    {ErrAuthentication, ErrConnRefused, ErrInvalidTopic, ErrCircularJson,
     ErrBrokerDown, IF n = 1 THEN ErrSendTimeout ELSE ErrBatchTimeout}

AllSendErrors == SendErrors(1) \cup SendErrors(2)

\* the wrapper's "Failed to ... Kafka: <message>" errors
connectError(e) == {"failed", "to", "connect", "kafka"} \cup e
sendError(e) == {"failed", "to", "send", "message", "kafka"} \cup e
sendBatchError(e) == {"failed", "to", "send", "batch", "messages", "kafka"} \cup e

\* ------------------------------------------------------- ErrorHandler
isConfigurationError(m) ==
    \/ includes(m, "configuration") \/ includes(m, "invalid")
    \/ includes(m, "missing")
    \/ (includes(m, "broker") /\ includes(m, "format"))
    \/ (includes(m, "topic") /\ includes(m, "empty"))
    \/ (includes(m, "client id") /\ includes(m, "empty"))

\* the authentication test without its "authentication", "sasl" and "auth" cases
isAuthenticationErrorNarrow(m) ==
    \/ includes(m, "unauthorized") \/ includes(m, "credentials")
    \/ includes(m, "login")

isAuthenticationError(m) ==
    \/ includes(m, "authentication") \/ includes(m, "unauthorized")
    \/ includes(m, "sasl") \/ includes(m, "credentials")
    \/ includes(m, "login") \/ includes(m, "auth")

isConnectionError(m) ==
    \/ includes(m, "connection") \/ includes(m, "connect")
    \/ includes(m, "network")
    \/ (includes(m, "broker") /\ includes(m, "unavailable"))
    \/ includes(m, "econnrefused") \/ includes(m, "enotfound")
    \/ includes(m, "ehostunreach")

isTimeoutError(m) ==
    includes(m, "timeout") \/ includes(m, "timed out") \/ includes(m, "etimedout")

isSerializationError(m) ==
    \/ includes(m, "serialization") \/ includes(m, "json")
    \/ includes(m, "parse") \/ includes(m, "stringify")
    \/ includes(m, "invalid message format")

isCircuitBreakerError(m) ==
    includes(m, "circuit breaker") \/ (includes(m, "circuit") /\ includes(m, "open"))

isQueueOverflowError(m) ==
    \/ (includes(m, "queue") /\ (includes(m, "full") \/ includes(m, "overflow")))
    \/ includes(m, "message dropped")

isMessageSendingError(m) ==
    \/ includes(m, "send") \/ includes(m, "publish") \/ includes(m, "produce")
    \/ (includes(m, "kafka") /\ includes(m, "failed"))

Retryable == {"CONNECTION", "TIMEOUT", "MESSAGE_SENDING", "UNKNOWN"}
\* a disabling rule that knows configuration errors only
CriticalConfigurationOnly == {"CONFIGURATION"}

Critical == {"CONFIGURATION", "AUTHENTICATION"}

categorizeError(m) ==
    IF isConfigurationError(m) THEN
        [category |-> "CONFIGURATION", shouldRetry |-> FALSE, shouldFallback |-> TRUE]
    ELSE IF isAuthenticationError(m) THEN
        [category |-> "AUTHENTICATION", shouldRetry |-> FALSE, shouldFallback |-> TRUE]
    ELSE IF isConnectionError(m) THEN
        [category |-> "CONNECTION", shouldRetry |-> TRUE, shouldFallback |-> TRUE]
    ELSE IF isTimeoutError(m) THEN
        [category |-> "TIMEOUT", shouldRetry |-> TRUE, shouldFallback |-> TRUE]
    ELSE IF isSerializationError(m) THEN
        [category |-> "SERIALIZATION", shouldRetry |-> FALSE, shouldFallback |-> FALSE]
    ELSE IF isCircuitBreakerError(m) THEN
        [category |-> "CIRCUIT_BREAKER", shouldRetry |-> FALSE, shouldFallback |-> TRUE]
    ELSE IF isQueueOverflowError(m) THEN
        [category |-> "QUEUE_OVERFLOW", shouldRetry |-> FALSE, shouldFallback |-> TRUE]
    ELSE IF isMessageSendingError(m) THEN
        [category |-> "MESSAGE_SENDING", shouldRetry |-> TRUE, shouldFallback |-> TRUE]
    ELSE
        [category |-> "UNKNOWN", shouldRetry |-> TRUE, shouldFallback |-> TRUE]

\* one line of the fallback file: logToFallback writes {reason, message},
\* logBatchToFallback writes {reason, messageCount, messages}
logToFallback(log, message, reason) ==
    log \cup {[format |-> "single", reason |-> reason, messages |-> <<message>>]}

\* a batch logger that writes only the first message of the batch
logBatchToFallbackFirstOnly(log, messages, reason) ==
    IF Len(messages) = 0 THEN log
    ELSE log \cup {[format |-> "batch", reason |-> reason,
                    messages |-> <<Head(messages)>>]}

logBatchToFallback(log, messages, reason) ==
    IF Len(messages) = 0 THEN log
    ELSE log \cup {[format |-> "batch", reason |-> reason, messages |-> messages]}

\* ------------------------------------------------------- MessageQueue
\* an enqueue that refuses the new message when the queue is full
enqueueRejectNew(q, message) ==
    IF Len(q) >= MaxSize THEN [messages |-> q, result |-> FALSE]
    ELSE [messages |-> Append(q, message), result |-> TRUE]

enqueue(q, message) ==
    LET wasDropped == Len(q) >= MaxSize
        kept == IF wasDropped THEN Tail(q) ELSE q
    IN [messages |-> Append(kept, message), result |-> ~wasDropped]

\* a dequeue that takes the newest message
dequeueNewest(q) ==
    IF Len(q) = 0 THEN [message |-> NoMessage, messages |-> q]
    ELSE [message |-> q[Len(q)], messages |-> SubSeq(q, 1, Len(q) - 1)]

dequeue(q) ==
    IF Len(q) = 0 THEN [message |-> NoMessage, messages |-> q]
    ELSE [message |-> Head(q), messages |-> Tail(q)]

\* a dequeueBatch that copies the batch and leaves it in the queue
dequeueBatchCopy(q, size) ==
    IF size <= 0 THEN [batch |-> <<>>, messages |-> q]
    ELSE [batch |-> SubSeq(q, 1, Min(size, Len(q))), messages |-> q]

dequeueBatch(q, size) ==
    IF size <= 0 THEN [batch |-> <<>>, messages |-> q]
    ELSE LET batchSize == Min(size, Len(q))
         IN [batch |-> SubSeq(q, 1, batchSize),
             messages |-> SubSeq(q, batchSize + 1, Len(q))]

\* ------------------------------------------------------ CircuitBreaker
NewBreaker(t) ==
    [state |-> "Closed", failureCount |-> 0, successCount |-> 0,
     nextAttemptTime |-> NoTime, monitoringWindowStart |-> t]

RECURSIVE Pow2(_)
Pow2(n) == IF n <= 0 THEN 1 ELSE 2 * Pow2(n - 1)

\* a window check that clears the failure count in every state
checkMonitoringWindowAnyState(b, t) ==
    IF t - b.monitoringWindowStart >= MonitoringPeriod
    THEN [b EXCEPT !.monitoringWindowStart = t, !.failureCount = 0,
                   !.successCount = 0]
    ELSE b

checkMonitoringWindow(b, t) ==
    IF t - b.monitoringWindowStart >= MonitoringPeriod THEN
        IF b.state = "Closed"
        THEN [b EXCEPT !.monitoringWindowStart = t, !.failureCount = 0,
                       !.successCount = 0]
        ELSE [b EXCEPT !.monitoringWindowStart = t]
    ELSE b

shouldAttemptReset(b, t) ==
    IF b.nextAttemptTime = NoTime THEN TRUE ELSE t >= b.nextAttemptTime

\* a backoff without the cap
setNextAttemptTimeUncapped(b, t) ==
    LET backoffMultiplier == Pow2(Max(0, b.failureCount - FailureThreshold))
    IN [b EXCEPT !.nextAttemptTime = t + ResetTimeout * backoffMultiplier]

setNextAttemptTime(b, t) ==
    LET backoffMultiplier == Pow2(Max(0, b.failureCount - FailureThreshold))
        backoffTime == ResetTimeout * Min(backoffMultiplier, BackoffCap)
    IN [b EXCEPT !.nextAttemptTime = t + backoffTime]

\* an onSuccess that closes the breaker and leaves nextAttemptTime set
onSuccessKeepsNextAttempt(b) ==
    LET b1 == [b EXCEPT !.successCount = @ + 1]
    IN IF b1.state = "Half-Open"
       THEN [b1 EXCEPT !.state = "Closed", !.failureCount = 0]
       ELSE b1

\* an onSuccess that closes the breaker without clearing the failure count
onSuccessKeepsFailures(b) ==
    LET b1 == [b EXCEPT !.successCount = @ + 1]
    IN IF b1.state = "Half-Open"
       THEN [b1 EXCEPT !.state = "Closed", !.nextAttemptTime = NoTime]
       ELSE b1

onSuccess(b) ==
    LET b1 == [b EXCEPT !.successCount = @ + 1]
    IN IF b1.state = "Half-Open"
       THEN [b1 EXCEPT !.state = "Closed", !.failureCount = 0,
                       !.nextAttemptTime = NoTime]
       ELSE b1

\* an onFailure that opens only when the failures exceed the threshold
onFailureLate(b, t) ==
    LET b1 == [b EXCEPT !.failureCount = @ + 1]
    IN IF b1.state = "Half-Open"
       THEN setNextAttemptTime([b1 EXCEPT !.state = "Open"], t)
       ELSE IF b1.state = "Closed" /\ b1.failureCount > FailureThreshold
       THEN setNextAttemptTime([b1 EXCEPT !.state = "Open"], t)
       ELSE b1

onFailure(b, t) ==
    LET b1 == [b EXCEPT !.failureCount = @ + 1]
    IN IF b1.state = "Half-Open"
       THEN setNextAttemptTime([b1 EXCEPT !.state = "Open"], t)
       ELSE IF b1.state = "Closed" /\ b1.failureCount >= FailureThreshold
       THEN setNextAttemptTime([b1 EXCEPT !.state = "Open"], t)
       ELSE b1

\* an execute() that moves to Half-Open on every call made while Open
executeEnterNoWait(b, t) ==
    LET b1 == checkMonitoringWindow(b, t)
    IN IF b1.state = "Open"
       THEN [breaker |-> [b1 EXCEPT !.state = "Half-Open"],
             invoked |-> TRUE, error |-> {}]
       ELSE [breaker |-> b1, invoked |-> TRUE, error |-> {}]

\* execute() up to the call of the operation: the breaker after the window
\* check and the Open test, and whether the operation is invoked
executeEnter(b, t) ==
    LET b1 == checkMonitoringWindow(b, t)
    IN IF b1.state = "Open"
       THEN IF shouldAttemptReset(b1, t)
            THEN [breaker |-> [b1 EXCEPT !.state = "Half-Open"],
                  invoked |-> TRUE, error |-> {}]
            ELSE [breaker |-> b1, invoked |-> FALSE, error |-> ErrCircuitOpen]
       ELSE [breaker |-> b1, invoked |-> TRUE, error |-> {}]

\* getState(): samples the window, then reports the state
getState(b, t) == checkMonitoringWindow(b, t)

\* ------------------------------------------------------- HealthMetrics
NewMetrics == [successCount |-> 0, failureCount |-> 0]
incrementSuccess(m) == [m EXCEPT !.successCount = @ + 1]
incrementFailure(m) == [m EXCEPT !.failureCount = @ + 1]

\* ------------------------------------------------ KafkaProducerWrapper
NewProducer == [connected |-> FALSE, producer |-> FALSE]
cleanup(w) == [connected |-> FALSE, producer |-> FALSE]

\* ------------------------------------------------------------ the state
Idle == [pc |-> "idle", batch |-> <<>>]

\* the integration service after construction: its isInitialized flag, the
\* signals received, the initialize() calls awaiting their connect (the one
\* on the current components, and those on components since replaced), the
\* initialize() bodies run since the last shutdown, the live setInterval
\* timers, and whether its shutdown() has returned with no 'server-started'
\* signal since
NewIntegration ==
    [isInitialized |-> FALSE, signals |-> 0, current |-> FALSE, replaced |-> 0,
     initializations |-> 0, timers |-> 0, stopped |-> FALSE]

\* a queue nothing was asked of: enqueue calls, dequeue and dequeueBatch
\* calls, the records returned in the order returned, the records dropped,
\* and the latest call with its result
NoQueueLog ==
    [enqueues |-> 0, dequeues |-> 0, returned |-> <<>>, dropped |-> {},
     last |-> [op |-> "none"]]

\* a breaker that has not opened: operations started and in flight, the wait set at the
\* latest move to Open and at the one before, whether the breaker closed
\* between the two, and whether it has closed since the latest
NoBackoff ==
    [calls |-> 0, inFlight |-> 0, delay |-> 0, previous |-> 0,
     reclosed |-> FALSE, closed |-> FALSE]

\* a wrapper nothing was asked of: calls made, calls awaiting the library,
\* and the latest call that returned with what it raised
NoWrapperCalls ==
    [calls |-> 0, connects |-> 0, disconnects |-> 0, sends |-> 0, batches |-> 0,
     last |-> [op |-> "none"]]

\* the log directory once the first ErrorHandler is constructed: an empty
\* kafka-fallback-0.log; lines are numbered in the order they are appended
NoLogFiles ==
    [files |-> [i \in {0} |-> <<>>], appended |-> 0, restarts |-> 0,
     last |-> [op |-> "none"]]

\* no lifecycle hook has been called
NoHook == [pc |-> "idle"]

\* no shutdown() has passed its guard since initialize()
NoTeardown ==
    [flushes |-> 0, queued |-> <<>>, connected |-> FALSE, open |-> FALSE,
     quiet |-> FALSE, failures |-> 0]

Range(seq) == {seq[k] : k \in 1..Len(seq)}

Init ==
    /\ now = 0
    /\ isInitialized = FALSE
    /\ isShuttingDown = FALSE
    /\ enabled = FALSE
    /\ flushTimer = FALSE
    /\ messageQueue = <<>>
    /\ circuitBreaker = NewBreaker(0)
    /\ kafkaProducer = NewProducer
    /\ healthMetrics = NewMetrics
    /\ fallbackLog = {}
    /\ initPc = "idle"
    /\ shutdownPc = "idle"
    /\ flushes = [i \in FlushSlots |-> Idle]
    /\ sending = {}
    /\ nextRec = 1
    /\ accepted = {}
    /\ delivered = {}
    /\ producerCalls = 0
    /\ discarded = {}
    /\ thrown = {}
    /\ teardown = NoTeardown
    /\ integration = NewIntegration
    /\ hook = NoHook
    /\ queueLog = NoQueueLog
    /\ backoff = NoBackoff
    /\ wrapper = NoWrapperCalls
    /\ logFiles = NoLogFiles
    /\ disconnectCalls = 0

\* isEnabled(), lines 655-657
isEnabled == isInitialized /\ enabled

\* ------------------------------------------- KafkaExecutionLogger: flush
\* a shutdown() that clears its flags only after a library disconnect
ShutdownDisconnectKeepsFlags(w) ==
    /\ kafkaProducer' = w
    /\ disconnectCalls' = disconnectCalls + 1
    /\ IF w.connected /\ w.producer
       THEN /\ shutdownPc' = "disconnecting"
            /\ isShuttingDown' = TRUE
            /\ UNCHANGED isInitialized
       ELSE /\ shutdownPc' = "idle"
            /\ isShuttingDown' = TRUE
            /\ UNCHANGED isInitialized

\* shutdown(), lines 126-137, once its final flush has returned with the
\* producer wrapper w: disconnect() awaits the library only when connected
ShutdownDisconnect(w) ==
    /\ kafkaProducer' = w
    /\ disconnectCalls' = disconnectCalls + 1
    /\ IF w.connected /\ w.producer
       THEN /\ shutdownPc' = "disconnecting"
            /\ isShuttingDown' = TRUE
            /\ UNCHANGED isInitialized
       ELSE /\ shutdownPc' = "idle"
            /\ isInitialized' = FALSE
            /\ isShuttingDown' = FALSE

\* flush i reaches an await
Suspend(i, pc, batch) ==
    /\ flushes' = [flushes EXCEPT ![i] = [pc |-> pc, batch |-> batch]]
    /\ IF i = ShutdownSlot
       THEN /\ shutdownPc' = "flushing" /\ isShuttingDown' = TRUE
            /\ UNCHANGED <<isInitialized, disconnectCalls>>
       ELSE UNCHANGED <<shutdownPc, isShuttingDown, isInitialized, disconnectCalls>>

\* flush i returns to its caller: the timer, or shutdown()
Return(i, w) ==
    /\ flushes' = [flushes EXCEPT ![i] = Idle]
    /\ IF i = ShutdownSlot
       THEN ShutdownDisconnect(w)
       ELSE /\ kafkaProducer' = w
            /\ UNCHANGED <<shutdownPc, isShuttingDown, isInitialized, disconnectCalls>>

\* lines 612-618: re-enqueue each message, fallback-log the ones whose
\* enqueue returned false
RECURSIVE requeue(_, _, _)
requeue(q, log, messages) ==
    IF Len(messages) = 0 THEN [messages |-> q, log |-> log]
    ELSE LET requeued == enqueue(q, Head(messages))
         IN requeue(requeued.messages,
                    IF requeued.result THEN log
                    ELSE logToFallback(log, Head(messages),
                                       <<"Re-queue failed after send error">>),
                    Tail(messages))

\* lines 598-635: the catch block of the batch send
FlushSendFailed(i, messages, q, b, w, error) ==
    LET categorizedError == categorizeError(error)
        rq == requeue(q, fallbackLog, messages)
    IN /\ healthMetrics' = incrementFailure(healthMetrics)
       /\ messageQueue' = IF categorizedError.shouldRetry THEN rq.messages ELSE q
       /\ fallbackLog' =
            IF categorizedError.shouldRetry THEN rq.log
            ELSE IF categorizedError.shouldFallback
            THEN logBatchToFallback(fallbackLog, messages,
                                    <<"Send failed: ", categorizedError.category>>)
            ELSE fallbackLog
       /\ discarded' =
            IF ~categorizedError.shouldRetry /\ ~categorizedError.shouldFallback
            THEN discarded \cup Range(messages) ELSE discarded
       /\ enabled' = IF categorizedError.category \in Critical THEN FALSE ELSE enabled
       /\ circuitBreaker' = b
       /\ Return(i, w)
       /\ UNCHANGED <<delivered, producerCalls>>

\* lines 579-594: dequeue a batch and send it through the breaker
FlushSend(i, b, w) ==
    LET d == dequeueBatch(messageQueue, BatchSize)
        messages == d.batch
        e == executeEnter(b, now)
    IN IF Len(messages) = 0 THEN
            /\ circuitBreaker' = b
            /\ Return(i, w)
            /\ UNCHANGED <<messageQueue, healthMetrics, fallbackLog, enabled,
                           delivered, producerCalls, discarded, thrown>>
       ELSE IF ~e.invoked THEN
            /\ thrown' = e.error
            /\ FlushSendFailed(i, messages, d.messages, e.breaker, w, e.error)
       ELSE IF ~(w.connected /\ w.producer) THEN
            /\ thrown' = e.error
            /\ FlushSendFailed(i, messages, d.messages, onFailure(e.breaker, now),
                               w, ErrNotConnected)
       ELSE /\ thrown' = e.error
            /\ messageQueue' = d.messages
            /\ circuitBreaker' = e.breaker
            /\ kafkaProducer' = w
            /\ producerCalls' = producerCalls + 1
            /\ Suspend(i, "sending", messages)
            /\ UNCHANGED <<healthMetrics, fallbackLog, enabled, delivered, discarded>>

\* lines 538-577: flushQueuedMessages() up to its first await or return
flushQueuedMessages(i) ==
    LET b == getState(circuitBreaker, now)
        e == executeEnter(b, now)
    IN IF Len(messageQueue) = 0 THEN
            /\ Return(i, kafkaProducer)
            /\ UNCHANGED <<messageQueue, circuitBreaker, healthMetrics, fallbackLog,
                           enabled, delivered, producerCalls, discarded, thrown>>
       ELSE IF b.state = "Open" THEN
            /\ circuitBreaker' = b
            /\ Return(i, kafkaProducer)
            /\ UNCHANGED <<messageQueue, healthMetrics, fallbackLog, enabled,
                           delivered, producerCalls, discarded, thrown>>
       ELSE IF ~kafkaProducer.connected THEN
            /\ circuitBreaker' = e.breaker
            /\ thrown' = e.error
            /\ kafkaProducer' = [connected |-> FALSE, producer |-> TRUE]
            /\ producerCalls' = producerCalls + 1
            /\ Suspend(i, "connecting", <<>>)
            /\ UNCHANGED <<messageQueue, healthMetrics, fallbackLog, enabled, delivered,
                           discarded>>
       ELSE FlushSend(i, b, kafkaProducer)

\* the interval timer fires: startBackgroundProcessing, lines 469-473
FlushTick(i) ==
    /\ flushTimer
    /\ flushes[i].pc = "idle"
    /\ \A j \in TimerSlots : j < i => flushes[j].pc # "idle"
    /\ Len(messageQueue) > 0
    /\ flushQueuedMessages(i)
    /\ producerCalls' <= MaxCalls
    /\ UNCHANGED <<now, flushTimer, initPc, sending, nextRec, accepted, teardown, integration, hook, queueLog, backoff, wrapper, logFiles>>

\* the library connect awaited at line 554 settles
FlushConnectOk(i) ==
    /\ flushes[i].pc = "connecting"
    /\ FlushSend(i, onSuccess(circuitBreaker),
                 [kafkaProducer EXCEPT !.connected = TRUE])
    /\ producerCalls' <= MaxCalls
    /\ UNCHANGED <<now, flushTimer, initPc, sending, nextRec, accepted, teardown, integration, hook, queueLog, backoff, wrapper, logFiles>>

FlushConnectFail(i, error) ==
    LET categorizedError == categorizeError(connectError(error))
    IN /\ flushes[i].pc = "connecting"
       /\ circuitBreaker' = onFailure(circuitBreaker, now)
       /\ enabled' = IF categorizedError.category \in Critical THEN FALSE ELSE enabled
       /\ Return(i, cleanup(kafkaProducer))
       /\ UNCHANGED <<now, flushTimer, initPc, sending, nextRec, accepted,
                      messageQueue, healthMetrics, fallbackLog, delivered,
                      producerCalls, discarded, thrown, teardown, integration, hook, queueLog, backoff, wrapper, logFiles>>

\* the library send awaited at lines 588-594 settles
FlushSendOk(i) ==
    /\ flushes[i].pc = "sending"
    /\ circuitBreaker' = onSuccess(circuitBreaker)
    /\ healthMetrics' = incrementSuccess(healthMetrics)
    /\ delivered' = delivered \cup Range(flushes[i].batch)
    /\ Return(i, kafkaProducer)
    /\ UNCHANGED <<now, flushTimer, initPc, sending, nextRec, accepted,
                   messageQueue, fallbackLog, enabled, producerCalls, discarded, thrown,
                   teardown, integration, hook, queueLog, backoff, wrapper, logFiles>>

FlushSendFail(i, error) ==
    LET messages == flushes[i].batch
    IN /\ flushes[i].pc = "sending"
       /\ error \in SendErrors(Len(messages))
       /\ FlushSendFailed(i, messages, messageQueue, onFailure(circuitBreaker, now),
                          kafkaProducer,
                          IF Len(messages) = 1 THEN sendError(error)
                          ELSE sendBatchError(error))
       /\ UNCHANGED <<now, flushTimer, initPc, sending, nextRec, accepted, thrown,
                      teardown, integration, hook, queueLog, backoff, wrapper, logFiles>>

\* ------------------------------------------ KafkaExecutionLogger: ingest
\* processMessage, lines 517-529
Enqueue(r) ==
    LET queued == enqueue(messageQueue, r)
    IN /\ messageQueue' = queued.messages
       /\ fallbackLog' =
            IF queued.result THEN fallbackLog
            ELSE logToFallback(fallbackLog, r, <<"Queue overflow - message dropped">>)

\* processMessage, lines 495-515: the catch block of the immediate send
ImmediateSendFailed(r, error) ==
    LET categorizedError == categorizeError(error)
    IN /\ healthMetrics' = incrementFailure(healthMetrics)
       /\ IF ~categorizedError.shouldRetry /\ categorizedError.shouldFallback
          THEN /\ fallbackLog' =
                    logToFallback(fallbackLog, r,
                        <<"Immediate send failed: ", categorizedError.category>>)
               /\ UNCHANGED messageQueue
          ELSE Enqueue(r)

\* a fast-path test that forgets the queue
canSendIgnoringQueue(b) ==
    b.state = "Closed" /\ kafkaProducer.connected

\* processMessage, lines 484-488: the fast-path test on the sampled breaker
canSendImmediately(b) ==
    b.state = "Closed" /\ kafkaProducer.connected /\ Len(messageQueue) = 0

\* handleWorkflowStart/Complete/Error/Cancel with processMessage, up to the
\* await of the immediate send
HandleWorkflowEvent ==
    LET r == nextRec
        b == getState(circuitBreaker, now)
        e == executeEnter(b, now)
    IN /\ nextRec <= MaxRecords
       /\ nextRec' = nextRec + 1
       /\ IF ~isInitialized \/ ~enabled THEN
               UNCHANGED <<accepted, circuitBreaker, thrown, sending, producerCalls,
                           messageQueue, fallbackLog, healthMetrics>>
          ELSE /\ accepted' = accepted \cup {r}
               /\ IF canSendImmediately(b) THEN
                     /\ thrown' = e.error
                     /\ IF kafkaProducer.producer
                        THEN /\ circuitBreaker' = e.breaker
                             /\ sending' = sending \cup {r}
                             /\ producerCalls' = producerCalls + 1
                             /\ UNCHANGED <<messageQueue, fallbackLog, healthMetrics>>
                        ELSE /\ circuitBreaker' = onFailure(e.breaker, now)
                             /\ ImmediateSendFailed(r, ErrNotConnected)
                             /\ UNCHANGED <<sending, producerCalls>>
                  ELSE /\ circuitBreaker' = b
                       /\ Enqueue(r)
                       /\ UNCHANGED <<thrown, sending, producerCalls, healthMetrics>>
       /\ producerCalls' <= MaxCalls
       /\ UNCHANGED <<now, isInitialized, isShuttingDown, enabled, flushTimer,
                      kafkaProducer, initPc, shutdownPc, flushes, delivered,
                      discarded, teardown, integration, hook, queueLog, backoff, wrapper, logFiles, disconnectCalls>>

\* the library send awaited at lines 490-492 settles
ImmediateSendOk(r) ==
    /\ r \in sending
    /\ sending' = sending \ {r}
    /\ circuitBreaker' = onSuccess(circuitBreaker)
    /\ healthMetrics' = incrementSuccess(healthMetrics)
    /\ delivered' = delivered \cup {r}
    /\ UNCHANGED <<now, isInitialized, isShuttingDown, enabled, flushTimer,
                   messageQueue, kafkaProducer, fallbackLog, initPc, shutdownPc,
                   flushes, nextRec, accepted, producerCalls, discarded, thrown,
                   teardown, integration, hook, queueLog, backoff, wrapper, logFiles, disconnectCalls>>

ImmediateSendFail(r, error) ==
    /\ r \in sending
    /\ sending' = sending \ {r}
    /\ circuitBreaker' = onFailure(circuitBreaker, now)
    /\ ImmediateSendFailed(r, sendError(error))
    /\ UNCHANGED <<now, isInitialized, isShuttingDown, enabled, flushTimer,
                   kafkaProducer, initPc, shutdownPc, flushes, nextRec, accepted,
                   delivered, producerCalls, discarded, thrown, teardown, integration, hook, queueLog, backoff, wrapper, logFiles,
                   disconnectCalls>>

\* -------------------------------- KafkaExecutionLogger: initialize, shutdown
Quiescent ==
    /\ sending = {}
    /\ shutdownPc = "idle"
    /\ \A i \in FlushSlots : flushes[i].pc = "idle"

\* initialize(), lines 46-67, up to the await of the library connect:
\* loadConfig, initializeComponents, connectToKafka
Initialize ==
    /\ ~isInitialized
    /\ initPc = "idle"
    /\ Quiescent
    /\ producerCalls < MaxCalls
    /\ enabled' = TRUE
    /\ messageQueue' = <<>>
    /\ circuitBreaker' = executeEnter(NewBreaker(now), now).breaker
    /\ thrown' = {}
    /\ kafkaProducer' = [connected |-> FALSE, producer |-> TRUE]
    /\ healthMetrics' = NewMetrics
    /\ initPc' = "connecting"
    /\ producerCalls' = producerCalls + 1
    /\ teardown' = NoTeardown
    /\ disconnectCalls' = 0
    /\ UNCHANGED <<integration, hook, queueLog, backoff, wrapper, logFiles>>
    /\ UNCHANGED <<now, isInitialized, isShuttingDown, flushTimer, fallbackLog,
                   shutdownPc, flushes, sending, nextRec, accepted, delivered,
                   discarded>>

\* the connect of connectToKafka settles; lines 444-463 and 69-73
InitializeConnectOk ==
    /\ initPc = "connecting"
    /\ initPc' = "idle"
    /\ kafkaProducer' = [kafkaProducer EXCEPT !.connected = TRUE]
    /\ circuitBreaker' = onSuccess(circuitBreaker)
    /\ flushTimer' = TRUE
    /\ isInitialized' = TRUE
    /\ UNCHANGED <<now, isShuttingDown, enabled, messageQueue, healthMetrics,
                   fallbackLog, shutdownPc, flushes, sending, nextRec, accepted,
                   delivered, producerCalls, discarded, thrown, teardown, integration, hook, queueLog, backoff, wrapper, logFiles,
                   disconnectCalls>>

InitializeConnectFail(error) ==
    LET categorizedError == categorizeError(connectError(error))
    IN /\ initPc = "connecting"
       /\ initPc' = "idle"
       /\ kafkaProducer' = cleanup(kafkaProducer)
       /\ circuitBreaker' = onFailure(circuitBreaker, now)
       /\ enabled' = IF categorizedError.category \in Critical THEN FALSE ELSE enabled
       /\ flushTimer' = TRUE
       /\ isInitialized' = TRUE
       /\ UNCHANGED <<now, isShuttingDown, messageQueue, healthMetrics,
                      fallbackLog, shutdownPc, flushes, sending, nextRec, accepted,
                      delivered, producerCalls, discarded, thrown, teardown, integration, hook, queueLog, backoff, wrapper, logFiles,
                      disconnectCalls>>

\* a shutdown() guard without the re-entrancy flag
canShutdownUnguarded == isInitialized

\* shutdown(), lines 109-111: the guard
canShutdown == isInitialized /\ ~isShuttingDown

\* shutdown(), lines 108-129, up to its first await
Shutdown ==
    /\ canShutdown
    /\ flushTimer' = FALSE
    /\ UNCHANGED <<integration, hook, queueLog, backoff, wrapper, logFiles>>
    /\ teardown' =
          [flushes |-> teardown.flushes + 1,
           queued |-> messageQueue,
           connected |-> kafkaProducer.connected /\ kafkaProducer.producer,
           open |-> getState(circuitBreaker, now).state = "Open",
           quiet |-> sending = {} /\ \A i \in TimerSlots : flushes[i].pc = "idle",
           failures |-> healthMetrics.failureCount]
    /\ flushQueuedMessages(ShutdownSlot)
    /\ producerCalls' <= MaxCalls
    /\ UNCHANGED <<now, initPc, sending, nextRec, accepted>>

\* the library disconnect awaited at line 128 settles (resolved, rejected
\* or timed out: disconnect() ends in cleanup() in each case)
ShutdownDisconnected ==
    /\ shutdownPc = "disconnecting"
    /\ shutdownPc' = "idle"
    /\ kafkaProducer' = cleanup(kafkaProducer)
    /\ isInitialized' = FALSE
    /\ isShuttingDown' = FALSE
    /\ UNCHANGED <<now, enabled, flushTimer, messageQueue, circuitBreaker,
                   healthMetrics, fallbackLog, initPc, flushes, sending, nextRec,
                   accepted, delivered, producerCalls, discarded, thrown, teardown, integration, hook, queueLog, backoff, wrapper, logFiles,
                   disconnectCalls>>

\* the clock advances
Tick ==
    /\ now < MaxTime
    /\ now' = now + 1
    /\ UNCHANGED <<isInitialized, isShuttingDown, enabled, flushTimer,
                   messageQueue, circuitBreaker, kafkaProducer, healthMetrics,
                   fallbackLog, initPc, shutdownPc, flushes, sending, nextRec,
                   accepted, delivered, producerCalls, discarded, thrown, teardown, integration, hook, queueLog, backoff, wrapper, logFiles,
                   disconnectCalls>>

Next ==
    \/ Initialize
    \/ InitializeConnectOk
    \/ \E error \in ConnectErrors : InitializeConnectFail(error)
    \/ HandleWorkflowEvent
    \/ \E r \in Records : ImmediateSendOk(r)
    \/ \E r \in Records : \E error \in SendErrors(1) : ImmediateSendFail(r, error)
    \/ \E i \in TimerSlots : FlushTick(i)
    \/ \E i \in FlushSlots : FlushConnectOk(i)
    \/ \E i \in FlushSlots : \E error \in ConnectErrors : FlushConnectFail(i, error)
    \/ \E i \in FlushSlots : FlushSendOk(i)
    \/ \E i \in FlushSlots : \E error \in AllSendErrors : FlushSendFail(i, error)
    \/ Shutdown
    \/ ShutdownDisconnected
    \/ Tick

Spec == Init /\ [][Next]_vars

TypeOK ==
    /\ now \in 0..MaxTime
    /\ Len(messageQueue) <= MaxSize
    /\ producerCalls \in 0..MaxCalls

\* withTimeout, lines 245-270: a library call that never settles is rejected by
\* the timer, so each await of shutdown() settles at the latest by a timeout
TimeoutFires ==
    /\ WF_vars(FlushConnectFail(ShutdownSlot, ErrConnectTimeout))
    /\ WF_vars(\E error \in {ErrSendTimeout, ErrBatchTimeout} :
                   FlushSendFail(ShutdownSlot, error))
    /\ WF_vars(ShutdownDisconnected)

LiveSpec == Init /\ [][Next]_vars /\ TimeoutFires

\* ------------------------------------------------ the breaker on its own
\* The CircuitBreaker driven through its public interface, as its component
\* tests drive it: callers run operations through execute(), the operations
\* settle in any order, and getState() is polled.  Operation k is the k-th
\* operation the breaker invoked; `sending` holds the operations in flight.
serviceVars == <<isInitialized, isShuttingDown, enabled, flushTimer, messageQueue,
                 kafkaProducer, healthMetrics, fallbackLog, initPc, shutdownPc,
                 flushes, nextRec, accepted, delivered, discarded, teardown, integration, hook, queueLog, backoff, wrapper, logFiles,
                 disconnectCalls>>

\* execute(), lines 71-83, up to the await of the operation
BreakerExecute ==
    LET e == executeEnter(circuitBreaker, now)
    IN /\ circuitBreaker' = e.breaker
       /\ thrown' = e.error
       /\ IF e.invoked
          THEN /\ producerCalls < MaxCalls
               /\ producerCalls' = producerCalls + 1
               /\ sending' = sending \cup {producerCalls + 1}
          ELSE UNCHANGED <<producerCalls, sending>>
       /\ UNCHANGED <<now, serviceVars>>

\* execute(), lines 83-85: the operation resolved
BreakerOperationOk(k) ==
    /\ k \in sending
    /\ sending' = sending \ {k}
    /\ circuitBreaker' = onSuccess(circuitBreaker)
    /\ UNCHANGED <<now, producerCalls, thrown, serviceVars>>

\* execute(), lines 86-88: the operation rejected
BreakerOperationFail(k) ==
    /\ k \in sending
    /\ sending' = sending \ {k}
    /\ circuitBreaker' = onFailure(circuitBreaker, now)
    /\ UNCHANGED <<now, producerCalls, thrown, serviceVars>>

\* getState(), lines 95-98
BreakerGetState ==
    /\ circuitBreaker' = getState(circuitBreaker, now)
    /\ circuitBreaker' # circuitBreaker
    /\ UNCHANGED <<now, sending, producerCalls, thrown, serviceVars>>

BreakerNext ==
    \/ BreakerExecute
    \/ \E k \in 1..MaxCalls : BreakerOperationOk(k)
    \/ \E k \in 1..MaxCalls : BreakerOperationFail(k)
    \/ BreakerGetState
    \/ Tick

BreakerSpec == Init /\ [][BreakerNext]_vars

\* --------------------------------------------- overlapping flushes
\* The logger, initialized and connected, with the clock held and no
\* shutdown: events arrive, and the interval timer starts flushes that do
\* not wait for one another.

\* the interval callback of startBackgroundProcessing(), lines 469-473, with
\* flushQueuedMessages(), lines 538-594, up to its first await
BatchFlushTick(i) ==
    /\ flushTimer
    /\ flushes[i].pc = "idle"
    /\ \A j \in TimerSlots : j < i => flushes[j].pc # "idle"
    /\ Len(messageQueue) > 0
    /\ flushQueuedMessages(i)
    /\ producerCalls' <= MaxBatchCalls
    /\ UNCHANGED <<now, flushTimer, initPc, sending, nextRec, accepted, teardown,
                   integration, hook, queueLog, backoff, wrapper, logFiles>>

BatchNext ==
    \/ Initialize
    \/ InitializeConnectOk
    \/ HandleWorkflowEvent
    \/ \E r \in Records : ImmediateSendOk(r)
    \/ \E r \in Records : \E error \in SendErrors(1) : ImmediateSendFail(r, error)
    \/ \E i \in TimerSlots : BatchFlushTick(i)
    \/ \E i \in TimerSlots : FlushSendOk(i)
    \/ \E i \in TimerSlots : \E error \in AllSendErrors : FlushSendFail(i, error)

BatchSpec == Init /\ [][BatchNext]_vars

\* ------------------------------------------- the integration service
\* KafkaExecutionLoggerIntegrationService driving the logger: every
\* 'server-started' signal runs initializeService(), every shutdown signal
\* runs shutdown(); the handlers are async and a signal does not wait for
\* the handler of an earlier one.  No workflow runs, so the queue is empty.
idleVars == <<now, fallbackLog, sending, nextRec, accepted, delivered, discarded,
              hook, queueLog, backoff, wrapper, logFiles>>

loggerVars == <<isInitialized, isShuttingDown, enabled, flushTimer, messageQueue,
                circuitBreaker, kafkaProducer, healthMetrics, initPc, shutdownPc,
                flushes, producerCalls, thrown, teardown, disconnectCalls>>

\* initializeService(), lines 39-69, up to the await of initialize(), with
\* initialize(), lines 46-67, up to the await of the library connect
ServerStarted ==
    /\ integration.signals < MaxSignals
    /\ IF integration.isInitialized THEN
            /\ integration' = [integration EXCEPT !.signals = @ + 1,
                                                  !.stopped = FALSE]
            /\ UNCHANGED loggerVars
       ELSE IF isInitialized THEN
            /\ integration' = [integration EXCEPT !.signals = @ + 1,
                                                  !.stopped = FALSE,
                                                  !.isInitialized = TRUE]
            /\ UNCHANGED loggerVars
       ELSE /\ producerCalls < MaxCalls
            /\ integration' =
                  [integration EXCEPT
                      !.signals = @ + 1,
                      !.stopped = FALSE,
                      !.initializations = @ + 1,
                      !.replaced = @ + (IF integration.current THEN 1 ELSE 0),
                      !.current = TRUE]
            /\ enabled' = TRUE
            /\ messageQueue' = <<>>
            /\ circuitBreaker' = executeEnter(NewBreaker(now), now).breaker
            /\ thrown' = {}
            /\ kafkaProducer' = [connected |-> FALSE, producer |-> TRUE]
            /\ healthMetrics' = NewMetrics
            /\ initPc' = "connecting"
            /\ producerCalls' = producerCalls + 1
            /\ teardown' = NoTeardown
            /\ disconnectCalls' = 0
            /\ UNCHANGED <<isInitialized, isShuttingDown, flushTimer, shutdownPc,
                           flushes>>
    /\ UNCHANGED idleVars

\* initialize(), lines 69-73, and initializeService(), lines 70-72, once the
\* connect of an initialize() call has settled
InitializeReturns(onCurrent) ==
    /\ flushTimer' = TRUE
    /\ isInitialized' = TRUE
    /\ integration' =
          [integration EXCEPT
              !.isInitialized = TRUE,
              !.timers = @ + 1,
              !.current = IF onCurrent THEN FALSE ELSE @,
              !.replaced = IF onCurrent THEN @ ELSE @ - 1]
    /\ initPc' = IF integration'.current \/ integration'.replaced > 0
                 THEN "connecting" ELSE "idle"
    /\ UNCHANGED <<isShuttingDown, messageQueue, healthMetrics, shutdownPc, flushes,
                   producerCalls, thrown, teardown, disconnectCalls, idleVars>>

\* the connect of an initialize() call resolves: on the current wrapper and
\* breaker, or on objects a later initialize() has replaced
StartConnectOk(onCurrent) ==
    /\ IF onCurrent THEN integration.current ELSE integration.replaced > 0
    /\ kafkaProducer' = IF onCurrent THEN [kafkaProducer EXCEPT !.connected = TRUE]
                        ELSE kafkaProducer
    /\ circuitBreaker' = IF onCurrent THEN onSuccess(circuitBreaker)
                         ELSE circuitBreaker
    /\ UNCHANGED enabled
    /\ InitializeReturns(onCurrent)

StartConnectFail(onCurrent, error) ==
    LET categorizedError == categorizeError(connectError(error))
    IN /\ IF onCurrent THEN integration.current ELSE integration.replaced > 0
       /\ kafkaProducer' = IF onCurrent THEN cleanup(kafkaProducer) ELSE kafkaProducer
       /\ circuitBreaker' = IF onCurrent THEN onFailure(circuitBreaker, now)
                            ELSE circuitBreaker
       /\ enabled' = IF categorizedError.category \in Critical THEN FALSE ELSE enabled
       /\ InitializeReturns(onCurrent)

\* the integration service's shutdown(), lines 97-106, with the logger's
\* shutdown(), lines 108-129, up to its first await
ShutdownSignal ==
    /\ integration.signals < MaxSignals
    /\ IF ~integration.isInitialized THEN
            /\ integration' = [integration EXCEPT !.signals = @ + 1,
                                                  !.stopped = TRUE]
            /\ UNCHANGED loggerVars
       ELSE IF ~canShutdown THEN
            /\ integration' = [integration EXCEPT !.signals = @ + 1,
                                                  !.stopped = TRUE,
                                                  !.isInitialized = FALSE]
            /\ UNCHANGED loggerVars
       ELSE /\ flushTimer' = FALSE
            /\ teardown' =
                  [flushes |-> teardown.flushes + 1,
                   queued |-> messageQueue,
                   connected |-> kafkaProducer.connected /\ kafkaProducer.producer,
                   open |-> getState(circuitBreaker, now).state = "Open",
                   quiet |-> TRUE,
                   failures |-> healthMetrics.failureCount]
            /\ flushQueuedMessages(ShutdownSlot)
            /\ integration' =
                  [integration EXCEPT
                      !.signals = @ + 1,
                      !.timers = @ - (IF flushTimer THEN 1 ELSE 0),
                      !.isInitialized = (shutdownPc' # "idle"),
                      !.stopped = (shutdownPc' = "idle"),
                      !.initializations = IF shutdownPc' = "idle" THEN 0 ELSE @]
            /\ UNCHANGED initPc
    /\ UNCHANGED idleVars

\* the library disconnect settles: shutdown(), lines 131-137, and the
\* integration service's shutdown(), lines 106-107
StopDisconnected ==
    /\ shutdownPc = "disconnecting"
    /\ shutdownPc' = "idle"
    /\ kafkaProducer' = cleanup(kafkaProducer)
    /\ isInitialized' = FALSE
    /\ isShuttingDown' = FALSE
    /\ integration' = [integration EXCEPT !.isInitialized = FALSE,
                                          !.stopped = TRUE,
                                          !.initializations = 0]
    /\ UNCHANGED <<enabled, flushTimer, messageQueue, circuitBreaker, healthMetrics,
                   initPc, flushes, producerCalls, thrown, teardown,
                   disconnectCalls, idleVars>>

IntegrationNext ==
    \/ ServerStarted
    \/ \E onCurrent \in BOOLEAN : StartConnectOk(onCurrent)
    \/ \E onCurrent \in BOOLEAN : \E error \in ConnectErrors :
          StartConnectFail(onCurrent, error)
    \/ ShutdownSignal
    \/ StopDisconnected

IntegrationSpec == Init /\ [][IntegrationNext]_vars

\* --------------------------------------------- the breaker's backoff
\* The CircuitBreaker driven through execute() by operations that may
\* overlap, with the wait of each move to Open recorded.
backoffRest == <<isInitialized, isShuttingDown, enabled, flushTimer, messageQueue,
                 kafkaProducer, healthMetrics, fallbackLog, initPc, shutdownPc,
                 flushes, sending, nextRec, accepted, delivered, producerCalls,
                 discarded, teardown, integration, hook, queueLog, wrapper, logFiles,
                 disconnectCalls>>

\* execute(), lines 71-83, up to the await of the operation
BackoffExecute ==
    LET e == executeEnter(circuitBreaker, now)
    IN /\ circuitBreaker' = e.breaker
       /\ thrown' = e.error
       /\ IF e.invoked
          THEN /\ backoff.calls < MaxTrials
               /\ backoff' = [backoff EXCEPT !.calls = @ + 1, !.inFlight = @ + 1]
          ELSE UNCHANGED backoff
       /\ UNCHANGED <<now, backoffRest>>

\* execute(), lines 83-85: an operation resolved
BackoffOperationOk ==
    /\ backoff.inFlight > 0
    /\ circuitBreaker' = onSuccess(circuitBreaker)
    /\ backoff' =
          [backoff EXCEPT
              !.inFlight = @ - 1,
              !.closed = IF circuitBreaker.state # "Closed"
                            /\ circuitBreaker'.state = "Closed"
                         THEN TRUE ELSE @]
    /\ UNCHANGED <<now, thrown, backoffRest>>

\* execute(), lines 86-88: an operation rejected
BackoffOperationFail ==
    /\ backoff.inFlight > 0
    /\ circuitBreaker' = onFailure(circuitBreaker, now)
    /\ backoff' =
          IF circuitBreaker.state # "Open" /\ circuitBreaker'.state = "Open"
          THEN [backoff EXCEPT
                   !.inFlight = @ - 1,
                   !.previous = backoff.delay,
                   !.delay = circuitBreaker'.nextAttemptTime - now,
                   !.reclosed = backoff.closed,
                   !.closed = FALSE]
          ELSE [backoff EXCEPT !.inFlight = @ - 1]
    /\ UNCHANGED <<now, thrown, backoffRest>>

\* the clock of the watched breaker advances
BackoffTick ==
    /\ now < MaxClock
    /\ now' = now + 1
    /\ UNCHANGED <<circuitBreaker, thrown, backoff, backoffRest>>

BackoffNext ==
    \/ BackoffExecute
    \/ BackoffOperationOk
    \/ BackoffOperationFail
    \/ BackoffTick

BackoffSpec == Init /\ [][BackoffNext]_vars

\* --------------------------------------- the fallback log on its own
\* An ErrorHandler with fallback logging enabled, asked to log lines of
\* chosen lengths; files maps the index i of each existing
\* kafka-fallback-i.log to its lines, every file operation succeeding.
logFilesRest == <<now, isInitialized, isShuttingDown, enabled, flushTimer,
                  messageQueue, circuitBreaker, kafkaProducer, healthMetrics,
                  fallbackLog, initPc, shutdownPc, flushes, sending, nextRec,
                  accepted, delivered, producerCalls, discarded, thrown,
                  teardown, integration, hook, queueLog, backoff, wrapper,
                  disconnectCalls>>

\* logLine.length of the lines offered, one longer than a file may grow
LineSizes == 1..(MaxFileSize + 1)

existsSync(files, i) == i \in DOMAIN files

unlinkSync(files, i) == [k \in DOMAIN files \ {i} |-> files[k]]

renameSync(files, i, j) ==
    [k \in (DOMAIN files \ {i}) \cup {j} |-> IF k = j THEN files[i] ELSE files[k]]

writeFileSync(files, i, content) ==
    [k \in DOMAIN files \cup {i} |-> IF k = i THEN content ELSE files[k]]

appendFileSync(files, i, line) ==
    [k \in DOMAIN files \cup {i} |->
        IF k # i THEN files[k]
        ELSE IF existsSync(files, i) THEN Append(files[i], line) ELSE <<line>>]

\* statSync(file).size: the lengths of the lines of a file
RECURSIVE statSize(_)
statSize(content) ==
    IF content = <<>> THEN 0 ELSE Head(content).size + statSize(Tail(content))

\* lines 353-361: for i from the given index down to 0, rename file i to i+1
RECURSIVE shiftLogFiles(_, _)
shiftLogFiles(files, i) ==
    IF i < 0 THEN files
    ELSE shiftLogFiles(IF existsSync(files, i) THEN renameSync(files, i, i + 1)
                       ELSE files, i - 1)

\* a rotation that empties the current file and moves nothing
rotateLogFilesTruncating(files) == writeFileSync(files, 0, <<>>)

\* rotateLogFiles(), lines 342-371
rotateLogFiles(files) ==
    LET oldestFile == MaxFiles - 1
        unlinked == IF existsSync(files, oldestFile)
                    THEN unlinkSync(files, oldestFile) ELSE files
    IN  writeFileSync(shiftLogFiles(unlinked, MaxFiles - 2), 0, <<>>)

\* the test of line 331 on the current log file
needsRotation(files, additionalSize) ==
    LET size == IF existsSync(files, 0) THEN statSize(files[0]) ELSE 0
    IN  size + additionalSize > MaxFileSize

\* rotateLogFileIfNeeded(additionalSize), lines 327-337
rotateLogFileIfNeeded(files, additionalSize) ==
    IF needsRotation(files, additionalSize) THEN rotateLogFiles(files) ELSE files

\* logToFallback(message, reason), lines 221-254, for a line of the given length
LogToFallback(size) ==
    /\ logFiles.appended < MaxAppends
    /\ LET logLine == [id |-> logFiles.appended + 1, size |-> size]
           rotated == rotateLogFileIfNeeded(logFiles.files, size)
       IN  logFiles' =
             [logFiles EXCEPT
                !.files = appendFileSync(rotated, 0, logLine),
                !.appended = @ + 1,
                !.last = [op |-> "append", line |-> logLine,
                          rotated |-> needsRotation(logFiles.files, size)]]
    /\ UNCHANGED logFilesRest

\* the process starts again over the same directory: the constructor and
\* initializeFallbackLogging(), lines 72-82 and 297-322
FallbackStartup(rotateOnStartup) ==
    /\ logFiles.restarts < MaxRestarts
    /\ LET rotated == IF rotateOnStartup THEN rotateLogFiles(logFiles.files)
                      ELSE logFiles.files
       IN  logFiles' =
             [logFiles EXCEPT
                !.files = IF existsSync(rotated, 0) THEN rotated
                          ELSE writeFileSync(rotated, 0, <<>>),
                !.restarts = @ + 1,
                !.last = [op |-> "startup", rotated |-> rotateOnStartup]]
    /\ UNCHANGED logFilesRest

FallbackNext ==
    \/ \E size \in LineSizes : LogToFallback(size)
    \/ \E rotateOnStartup \in BOOLEAN : FallbackStartup(rotateOnStartup)

FallbackSpec == Init /\ [][FallbackNext]_vars

\* ------------------------------------- the producer wrapper on its own
\* A KafkaProducerWrapper driven through its public interface by callers
\* that do not wait for one another, the library settling each call in any
\* order: resolved, rejected, or rejected by the timer of withTimeout.
wrapperRest == <<now, isInitialized, isShuttingDown, enabled, flushTimer,
                 messageQueue, circuitBreaker, healthMetrics, fallbackLog, initPc,
                 shutdownPc, flushes, sending, nextRec, accepted, delivered,
                 producerCalls, discarded, thrown, teardown, integration, hook,
                 queueLog, backoff, logFiles, disconnectCalls>>

DisconnectErrors == {ErrBrokerDown, ErrDisconnectTimeout}
Timeouts == {ErrConnectTimeout, ErrSendTimeout, ErrBatchTimeout, ErrDisconnectTimeout}

\* a call returned: what it was, the error it raised ({} for none), and
\* whether the timer of withTimeout ended it
Returned(op, raised, library) ==
    [op |-> op, raised |-> raised, timedOut |-> library \in Timeouts]

\* connect(), lines 32-66, up to the await of the library connect
WrapperConnect ==
    /\ wrapper.calls < MaxWrapperCalls
    /\ IF kafkaProducer.connected
       THEN /\ wrapper' = [wrapper EXCEPT !.calls = @ + 1,
                                          !.last = Returned("connect", {}, {})]
            /\ UNCHANGED kafkaProducer
       ELSE /\ wrapper' = [wrapper EXCEPT !.calls = @ + 1, !.connects = @ + 1]
            /\ kafkaProducer' = [kafkaProducer EXCEPT !.producer = TRUE]
    /\ UNCHANGED wrapperRest

\* connect(), line 68: the library connect resolved
WrapperConnectOk ==
    /\ wrapper.connects > 0
    /\ kafkaProducer' = [kafkaProducer EXCEPT !.connected = TRUE]
    /\ wrapper' = [wrapper EXCEPT !.connects = @ - 1,
                                  !.last = Returned("connect", {}, {})]
    /\ UNCHANGED wrapperRest

\* connect(), lines 69-100: the library connect rejected or timed out
WrapperConnectFail(error) ==
    /\ wrapper.connects > 0
    /\ kafkaProducer' = cleanup(kafkaProducer)
    /\ wrapper' = [wrapper EXCEPT
                      !.connects = @ - 1,
                      !.last = Returned("connect", connectError(error), error)]
    /\ UNCHANGED wrapperRest

\* disconnect(), lines 106-116, up to the await of the library disconnect
WrapperDisconnect ==
    /\ wrapper.calls < MaxWrapperCalls
    /\ IF ~kafkaProducer.connected \/ ~kafkaProducer.producer
       THEN wrapper' = [wrapper EXCEPT !.calls = @ + 1,
                                       !.last = Returned("disconnect", {}, {})]
       ELSE wrapper' = [wrapper EXCEPT !.calls = @ + 1, !.disconnects = @ + 1]
    /\ UNCHANGED <<kafkaProducer, wrapperRest>>

\* disconnect(), lines 117-122: the library disconnect settled; error is {}
\* when it resolved
WrapperDisconnected(error) ==
    /\ wrapper.disconnects > 0
    /\ kafkaProducer' = cleanup(kafkaProducer)
    /\ wrapper' = [wrapper EXCEPT !.disconnects = @ - 1,
                                  !.last = Returned("disconnect", {}, error)]
    /\ UNCHANGED wrapperRest

\* send() and sendBatch(), lines 128-145 and 182-200, up to the await of
\* the library send; n is 1 for send
WrapperSend(n) ==
    /\ wrapper.calls < MaxWrapperCalls
    /\ IF ~kafkaProducer.connected \/ ~kafkaProducer.producer
       THEN wrapper' = [wrapper EXCEPT
                           !.calls = @ + 1,
                           !.last = Returned(IF n = 1 THEN "send" ELSE "sendBatch",
                                             ErrNotConnected, {})]
       ELSE IF n = 1
       THEN wrapper' = [wrapper EXCEPT !.calls = @ + 1, !.sends = @ + 1]
       ELSE wrapper' = [wrapper EXCEPT !.calls = @ + 1, !.batches = @ + 1]
    /\ UNCHANGED <<kafkaProducer, wrapperRest>>

\* the library send settled; error is {} when it resolved
WrapperSendSettled(n, error) ==
    /\ IF n = 1 THEN wrapper.sends > 0 ELSE wrapper.batches > 0
    /\ error # {} => error \in SendErrors(n)
    /\ wrapper' =
          [wrapper EXCEPT
              !.sends = IF n = 1 THEN @ - 1 ELSE @,
              !.batches = IF n = 1 THEN @ ELSE @ - 1,
              !.last = Returned(IF n = 1 THEN "send" ELSE "sendBatch",
                                IF error = {} THEN {}
                                ELSE IF n = 1 THEN sendError(error)
                                ELSE sendBatchError(error),
                                error)]
    /\ UNCHANGED <<kafkaProducer, wrapperRest>>

WrapperNext ==
    \/ WrapperConnect
    \/ WrapperConnectOk
    \/ \E error \in ConnectErrors : WrapperConnectFail(error)
    \/ WrapperDisconnect
    \/ \E error \in {{}} \cup DisconnectErrors : WrapperDisconnected(error)
    \/ \E n \in 1..2 : WrapperSend(n)
    \/ \E n \in 1..2 : \E error \in {{}} \cup AllSendErrors : WrapperSendSettled(n, error)

WrapperSpec == Init /\ [][WrapperNext]_vars

\* ------------------------------------------------ the queue on its own
\* A MessageQueue of capacity MaxSize driven through its public interface,
\* as its component tests drive it.  The k-th enqueue call adds record k.
queueRest == <<now, isInitialized, isShuttingDown, enabled, flushTimer,
               circuitBreaker, kafkaProducer, healthMetrics, fallbackLog, initPc,
               shutdownPc, flushes, sending, nextRec, accepted, delivered,
               producerCalls, discarded, thrown, teardown, integration, hook,
               backoff, wrapper, logFiles, disconnectCalls>>

\* the records a call removed from the queue without returning them
droppedBy(before, after, given) ==
    {before[i] : i \in 1..Len(before)}
        \ ({after[i] : i \in 1..Len(after)} \cup {given[i] : i \in 1..Len(given)})

\* enqueue(), lines 71-85
QueueEnqueue ==
    LET message == queueLog.enqueues + 1
        r == enqueue(messageQueue, message)
    IN /\ queueLog.enqueues < MaxEnqueues
       /\ messageQueue' = r.messages
       /\ queueLog' =
             [queueLog EXCEPT
                 !.enqueues = message,
                 !.dropped = @ \cup droppedBy(messageQueue, r.messages, <<>>),
                 !.last = [op |-> "enqueue", before |-> messageQueue,
                           message |-> message, result |-> r.result]]
       /\ UNCHANGED queueRest

\* dequeue(), lines 91-93
QueueDequeue ==
    LET r == dequeue(messageQueue)
        given == IF r.message = NoMessage THEN <<>> ELSE <<r.message>>
    IN /\ queueLog.dequeues < MaxDequeues
       /\ messageQueue' = r.messages
       /\ queueLog' =
             [queueLog EXCEPT
                 !.dequeues = @ + 1,
                 !.returned = @ \o given,
                 !.dropped = @ \cup droppedBy(messageQueue, r.messages, given),
                 !.last = [op |-> "dequeue", before |-> messageQueue,
                           result |-> given]]
       /\ UNCHANGED queueRest

\* dequeueBatch(size), lines 101-109
QueueDequeueBatch(size) ==
    LET r == dequeueBatch(messageQueue, size)
    IN /\ queueLog.dequeues < MaxDequeues
       /\ messageQueue' = r.messages
       /\ queueLog' =
             [queueLog EXCEPT
                 !.dequeues = @ + 1,
                 !.returned = @ \o r.batch,
                 !.dropped = @ \cup droppedBy(messageQueue, r.messages, r.batch),
                 !.last = [op |-> "dequeueBatch", before |-> messageQueue,
                           result |-> r.batch]]
       /\ UNCHANGED queueRest

QueueNext ==
    \/ QueueEnqueue
    \/ QueueDequeue
    \/ \E size \in 0..BatchSize : QueueDequeueBatch(size)

QueueSpec == Init /\ [][QueueNext]_vars

\* ---------------------------------------------- the lifecycle adapter
\* The two handlers registerLifecycleHooks() adds, called by the host with
\* every outcome of the steps beneath them.  An outcome is the error a step
\* raises, {} when it returns; each operator below gives the error that
\* leaves the function it models.
ErrNoProperty == {"cannot", "read", "properties", "of", "undefined"}
ErrNoSpace == {"enospc", "no", "space", "left", "on", "device"}

HookNames == {"workflowExecuteBefore", "workflowExecuteAfter"}
RunStatuses == {"success", "canceled", "cancelled", "error", "crashed"}
BuildOutcomes == {{}, ErrCircularJson, ErrNoProperty}
SendOutcomes == {{}, ErrCircuitOpen} \cup {sendError(e) : e \in SendErrors(1)}
WriteOutcomes == {{}, ErrNoSpace}

\* a catch block that raises the error again after logging it
rethrown(error) == error

\* a catch block that logs the error and falls through
logged(error) == {}

\* logToFallback, error-handler.ts lines 221-254
fallbackRaises(o) == logged(o.write)

\* processMessage, lines 478-533
processMessageRaises(o) ==
    LET categorizedError == categorizeError(o.send)
    IN IF o.fast /\ o.send = {} THEN {}
       ELSE IF /\ o.fast
               /\ ~categorizedError.shouldRetry
               /\ categorizedError.shouldFallback
            THEN fallbackRaises(o)
       ELSE IF ~o.queued THEN fallbackRaises(o)
       ELSE {}

\* handleWorkflowStart/Complete/Error/Cancel, lines 143-311
handleWorkflowRaises(o) ==
    LET error == IF o.build # {} THEN o.build ELSE processMessageRaises(o)
        categorizedError == categorizeError(error)
    IN IF ~o.ready \/ error = {} THEN {}
       ELSE IF categorizedError.category = "SERIALIZATION" THEN {}
       ELSE IF categorizedError.shouldFallback
            THEN logged(IF o.build # {} THEN o.build ELSE fallbackRaises(o))
       ELSE {}

\* the setImmediate callback, lines 338-346 and 372-391: the rejection left
\* unhandled after the .catch of the handler's promise
deferredRaises(o) == logged(handleWorkflowRaises(o))

\* the try block of a hook handler, lines 328-346 and 359-391: reading the
\* host's fields and scheduling the callback raise nothing
hookRaises(name) == logged({})

\* the builder the callback's handler calls: lines 339 and 375-381
eventFor(name, status) ==
    IF name = "workflowExecuteBefore" THEN "Workflow Started"
    ELSE IF status = "success" THEN "Workflow Completed"
    ELSE IF status = "canceled" THEN "Workflow Cancelled"
    ELSE "Workflow Failed"

\* a hand-over that runs the callback inside the hook handler
callInline(h) == [h EXCEPT !.pc = "scheduled", !.began = TRUE]

\* setImmediate, lines 338 and 372: the callback is queued and runs only
\* after the handler has returned to the host
setImmediate(h) == [h EXCEPT !.pc = "scheduled"]

\* the host calls a hook handler: lines 327-355 and 358-401
HookCalled(name, status) ==
    /\ hook.pc # "scheduled"
    /\ name = "workflowExecuteBefore" => status = "success"
    /\ hook' = setImmediate([pc |-> "called", name |-> name, status |-> status,
                             began |-> FALSE, raised |-> hookRaises(name)])
    /\ UNCHANGED <<loggerVars, integration, now, fallbackLog, sending, nextRec,
                   accepted, delivered, discarded, queueLog, backoff, wrapper, logFiles>>

\* the scheduled callback runs to its end under outcome o
HookDeferred(o) ==
    /\ hook.pc = "scheduled"
    /\ hook' = [pc |-> "done", name |-> hook.name, status |-> hook.status,
                began |-> hook.began, raised |-> hook.raised, outcome |-> o,
                event |-> IF o.ready THEN eventFor(hook.name, hook.status)
                          ELSE "none",
                unhandled |-> deferredRaises(o)]
    /\ UNCHANGED <<loggerVars, integration, now, fallbackLog, sending, nextRec,
                   accepted, delivered, discarded, queueLog, backoff, wrapper, logFiles>>

HookOutcomes ==
    [ready : BOOLEAN, build : BuildOutcomes, fast : BOOLEAN, send : SendOutcomes,
     queued : BOOLEAN, write : WriteOutcomes]

AdapterNext ==
    \/ \E name \in HookNames : \E status \in RunStatuses : HookCalled(name, status)
    \/ \E o \in HookOutcomes : HookDeferred(o)

AdapterSpec == Init /\ [][AdapterNext]_vars

\* ================================================================ claims
Pending(r) ==
    \/ r \in Range(messageQueue)
    \/ r \in sending
    \/ \E i \in FlushSlots : r \in Range(flushes[i].batch)

InFallbackLog(r) == \E entry \in fallbackLog : r \in Range(entry.messages)

\* the error the flusher's catch block receives for library error `error`
flushError(i, error) ==
    IF Len(flushes[i].batch) = 1 THEN sendError(error) ELSE sendBatchError(error)

OverflowReason == <<"Queue overflow - message dropped">>
RequeueReason == <<"Re-queue failed after send error">>

\* C1: every record the pipeline accepted while initialized and enabled is
\* still held by the pipeline (queued or in a send that is awaited), or was
\* acknowledged by the Kafka producer, or is in the fallback log; records
\* that the serialization policy discards are left aside.
AtLeastOnceDelivery ==
    \A r \in accepted \ discarded :
        Pending(r) \/ r \in delivered \/ InFallbackLog(r)

\* C2: whenever a step writes an entry with reason "Queue overflow - message
\* dropped", the record of that entry is the record the overflow removed from
\* the queue, that is the head of the queue before the step.
OverflowLogsDroppedRecord ==
    [][\A entry \in fallbackLog' \ fallbackLog :
          entry.reason = OverflowReason =>
              /\ Len(messageQueue) > 0
              /\ entry.messages = <<Head(messageQueue)>>
              /\ Head(messageQueue) \notin Range(messageQueue')]_vars

\* C3: a flush tick that finds records queued and the breaker Open after
\* nextAttemptTime has passed retries delivery: the breaker leaves Open and
\* the producer is invoked.
FlushRetriesAfterBreakerTimeout ==
    [][\A i \in TimerSlots :
          (/\ FlushTick(i)
           /\ circuitBreaker.state = "Open"
           /\ now >= circuitBreaker.nextAttemptTime)
          => (circuitBreaker'.state # "Open" /\ producerCalls' > producerCalls)]_vars

\* C4: no step taken while the breaker is Open and the clock is before
\* nextAttemptTime invokes the guarded operation, and an execute call made
\* then is rejected with "Circuit breaker is open".
OpenBreakerRejects ==
    [][(circuitBreaker.state = "Open" /\ now < circuitBreaker.nextAttemptTime)
          => /\ producerCalls' = producerCalls
             /\ sending' \subseteq sending
             /\ (BreakerExecute => thrown' = ErrCircuitOpen)]_vars

OpenBreakerRejected ==
    /\ circuitBreaker.state = "Open"
    /\ now < circuitBreaker.nextAttemptTime
    /\ thrown = ErrCircuitOpen
    /\ producerCalls = FailureThreshold

\* C5: an ingest step of an initialized and enabled pipeline starts an
\* immediate send only if the breaker is Closed, the producer is connected
\* and the queue is empty; otherwise it makes no producer call and appends
\* the record to the queue.
FastPathOnlyWhenAllHold ==
    [][(nextRec' # nextRec /\ isInitialized /\ enabled) =>
          IF /\ circuitBreaker.state = "Closed"
             /\ kafkaProducer.connected
             /\ Len(messageQueue) = 0
          THEN TRUE
          ELSE /\ producerCalls' = producerCalls
               /\ nextRec \notin sending'
               /\ Len(messageQueue') > 0
               /\ messageQueue'[Len(messageQueue')] = nextRec]_vars

EnqueuedWithoutCall ==
    /\ isInitialized /\ enabled
    /\ ~kafkaProducer.connected
    /\ producerCalls = 1
    /\ sending = {}
    /\ messageQueue = <<1>>
    /\ nextRec = 2

\* C6: while the pipeline is initialized and its enabled flag has been set
\* to false, no step makes a producer connect or send call.
DisabledPipelineMakesNoCalls ==
    [][(isInitialized /\ ~enabled) => producerCalls' = producerCalls]_vars

\* C7: a batch send that fails with an authentication error writes the whole
\* batch to the fallback log with reason "Send failed: AUTHENTICATION", puts
\* nothing back in the queue and sets enabled to false; an ingest made while
\* enabled is false makes no producer call and changes neither the queue nor
\* the fallback log.
AuthFailureDisables ==
    [][/\ \A i \in FlushSlots :
            FlushSendFail(i, ErrAuthentication) =>
                /\ fallbackLog' = fallbackLog \cup
                      {[format |-> "batch",
                        reason |-> <<"Send failed: ", "AUTHENTICATION">>,
                        messages |-> flushes[i].batch]}
                /\ messageQueue' = messageQueue
                /\ ~enabled'
       /\ (~enabled /\ nextRec' # nextRec) =>
             UNCHANGED <<messageQueue, fallbackLog, producerCalls, sending>>]_vars

IngestAfterAuthFailure ==
    /\ isInitialized /\ ~enabled
    /\ \E entry \in fallbackLog :
          /\ entry.reason = <<"Send failed: ", "AUTHENTICATION">>
          /\ \A r \in Range(entry.messages) : r < nextRec - 1
    /\ nextRec > 1
    /\ (nextRec - 1) \notin accepted

\* C8: a record whose send fails with an error classified SERIALIZATION is
\* afterwards neither in the queue nor in the fallback log, on the immediate
\* path and on the batch path.
SerializationFailureDrops ==
    [][/\ \A r \in Records : \A error \in SendErrors(1) :
            (/\ ImmediateSendFail(r, error)
             /\ categorizeError(sendError(error)).category = "SERIALIZATION")
            => (r \notin Range(messageQueue') /\ ~InFallbackLog(r)')
       /\ \A i \in FlushSlots : \A error \in AllSendErrors :
            (/\ FlushSendFail(i, error)
             /\ categorizeError(flushError(i, error)).category = "SERIALIZATION")
            => \A r \in Range(flushes[i].batch) :
                  r \notin Range(messageQueue') /\ ~InFallbackLog(r)']_vars

\* C9: a record whose immediate send fails with category CONNECTION, TIMEOUT,
\* MESSAGE_SENDING or UNKNOWN is afterwards the last record of the queue and
\* is not in the fallback log.
ImmediateRetryableFailureQueues ==
    [][\A r \in Records : \A error \in SendErrors(1) :
          (/\ ImmediateSendFail(r, error)
           /\ categorizeError(sendError(error)).category \in Retryable)
          => /\ Len(messageQueue') > 0
             /\ messageQueue'[Len(messageQueue')] = r
             /\ ~InFallbackLog(r)']_vars

\* C10: when a batch send fails with a retryable category, the queue ends
\* with the records of the batch in batch order, and the entries added to
\* the fallback log are exactly the records of the batch whose own
\* re-enqueue found the queue full.
BatchRetryRequeues ==
    [][\A i \in FlushSlots : \A error \in AllSendErrors :
          (/\ FlushSendFail(i, error)
           /\ categorizeError(flushError(i, error)).category \in Retryable)
          => LET batch == flushes[i].batch
                 n == Len(batch)
                 overflowed == Max(0, Len(messageQueue) + n - MaxSize)
                 size == Len(messageQueue')
             IN /\ size >= n
                /\ SubSeq(messageQueue', size - n + 1, size) = batch
                /\ fallbackLog' = fallbackLog \cup
                      {[format |-> "single", reason |-> RequeueReason,
                        messages |-> <<batch[k]>>] :
                          k \in (n - overflowed + 1)..n}]_vars

RequeueOverflowed ==
    /\ Len(messageQueue) = MaxSize
    /\ \E entry \in fallbackLog :
          /\ entry.reason = RequeueReason
          /\ entry.messages = <<messageQueue[MaxSize]>>
    /\ \A entry \in fallbackLog : entry.reason = RequeueReason

\* C11: when a batch send fails with a category that is not retryable but
\* allows fallback, the log gains exactly one entry, holding the whole batch
\* with reason "Send failed: <CATEGORY>", and the queue is left as it was;
\* the same holds when the breaker rejects the send of a batch that a flush
\* dequeued after its reconnect.
BatchFallbackOnNonRetryable ==
    [][/\ \A i \in FlushSlots : \A error \in AllSendErrors :
            LET c == categorizeError(flushError(i, error))
            IN (FlushSendFail(i, error) /\ ~c.shouldRetry /\ c.shouldFallback)
               => /\ fallbackLog' = fallbackLog \cup
                        {[format |-> "batch",
                          reason |-> <<"Send failed: ", c.category>>,
                          messages |-> flushes[i].batch]}
                  /\ messageQueue' = messageQueue
       /\ \A i \in FlushSlots :
            LET d == dequeueBatch(messageQueue, BatchSize)
            IN (/\ FlushConnectOk(i)
                /\ Len(messageQueue) > 0
                /\ thrown' = ErrCircuitOpen)
               => /\ fallbackLog' = fallbackLog \cup
                        {[format |-> "batch",
                          reason |-> <<"Send failed: ", "CIRCUIT_BREAKER">>,
                          messages |-> d.batch]}
                  /\ messageQueue' = d.messages]_vars

WholeBatchInFallback ==
    \E entry \in fallbackLog :
        /\ entry.reason = <<"Send failed: ", "CONFIGURATION">>
        /\ Len(entry.messages) = BatchSize
        /\ \A r \in Range(entry.messages) : ~Pending(r) /\ r \notin delivered

\* C12: when the connect made by initialize fails, initialize still returns
\* normally (the service is initialized, nothing is left in progress); after
\* a CONFIGURATION or AUTHENTICATION failure isEnabled() is false, after a
\* failure of any other category the service is enabled, disconnected and
\* has an empty queue ready to hold the ingested records.
InitializeConnectFailurePolicy ==
    [][\A error \in ConnectErrors :
          InitializeConnectFail(error) =>
              /\ isInitialized' /\ initPc' = "idle"
              /\ IF categorizeError(connectError(error)).category
                        \in {"CONFIGURATION", "AUTHENTICATION"}
                 THEN ~isEnabled'
                 ELSE /\ isEnabled'
                      /\ ~kafkaProducer'.connected
                      /\ messageQueue' = <<>>]_vars

DisabledByInitialize ==
    /\ isInitialized /\ ~enabled
    /\ producerCalls = 1
    /\ circuitBreaker.failureCount = 1

\* shutdown() has returned
ShutdownReturned ==
    ~isInitialized /\ shutdownPc = "idle" /\ teardown.flushes > 0

ShutdownAtMostOnce ==
    [][/\ teardown'.flushes <= 1
       /\ disconnectCalls' <= 1
       /\ (~isInitialized \/ isShuttingDown)
             => /\ teardown'.flushes <= teardown.flushes
                /\ (disconnectCalls' > disconnectCalls => shutdownPc # "idle")]_vars

ShutdownInProgress ==
    /\ isInitialized /\ isShuttingDown
    /\ shutdownPc = "disconnecting"
    /\ teardown.flushes = 1
    /\ disconnectCalls = 1

\* C15: a failure of the final flush's connect or send does not stop
\* shutdown, which goes on to the disconnect; whenever no shutdown is in
\* progress the shutting-down flag is clear; and when shutdown returns, after
\* any outcome of the flush and of the disconnect, the service is not
\* initialized and isEnabled() is false.
ShutdownNeverRaises ==
    [][/\ \A error \in AllSendErrors :
            FlushSendFail(ShutdownSlot, error) => disconnectCalls' = disconnectCalls + 1
       /\ \A error \in ConnectErrors :
            FlushConnectFail(ShutdownSlot, error) => disconnectCalls' = disconnectCalls + 1
       /\ shutdownPc' = "idle" => ~isShuttingDown'
       /\ (shutdownPc' = "idle" /\ (shutdownPc # "idle" \/ Shutdown))
             => ~isInitialized' /\ ~isEnabled']_vars

ShutdownAfterFailedFlush ==
    /\ ShutdownReturned
    /\ ~isShuttingDown
    /\ teardown.quiet /\ Len(teardown.queued) > 0
    /\ healthMetrics.failureCount = teardown.failures + 1

\* C17: at most one flushQueuedMessages call is in progress at any time.
SingleFlusher ==
    Cardinality({i \in FlushSlots : flushes[i].pc # "idle"}) <= 1

\* C18: at most one library connect or disconnect of the producer wrapper is
\* in progress at any time.
ConnectDisconnectSerialized ==
    Cardinality({i \in FlushSlots : flushes[i].pc = "connecting"})
        + (IF initPc = "connecting" THEN 1 ELSE 0)
        + (IF shutdownPc = "disconnecting" THEN 1 ELSE 0) <= 1

\* C16: while a shutdown is in progress the flush timer is cancelled, and
\* every shutdown that has begun returns, even when the library calls it
\* awaits never settle on their own.
ShutdownTerminates ==
    /\ [](shutdownPc # "idle" => ~flushTimer)
    /\ (shutdownPc # "idle") ~> (shutdownPc = "idle" /\ ~isInitialized)

ShutdownAwaitsSend ==
    /\ isShuttingDown /\ ~flushTimer
    /\ shutdownPc = "flushing"
    /\ flushes[ShutdownSlot].pc = "sending"

\* C19: between two shutdowns the integration service runs the logger's
\* initialization at most once, and it calls the logger's shutdown() only
\* while its own isInitialized flag is set.
IntegrationAbsorbsSignals ==
    [][/\ integration'.initializations <= 1
       /\ teardown'.flushes > teardown.flushes => integration.isInitialized]_vars

FinishEventChosenByStatus ==
    (hook.pc = "done" /\ hook.outcome.ready /\ hook.name = "workflowExecuteAfter")
    => hook.event = (IF hook.status = "success" THEN "Workflow Completed"
                     ELSE IF hook.status \in {"canceled", "cancelled"}
                          THEN "Workflow Cancelled"
                     ELSE "Workflow Failed")

\* C23: at every point of a run the success and failure counters together
\* are at least the number of producer calls made so far.
MetricsCoverProducerCalls ==
    healthMetrics.successCount + healthMetrics.failureCount >= producerCalls

\* C24 as stated: after any sequence of enqueues and dequeues the queue
\* holds min(N - dequeued, C) records, N the number of enqueues.
QueueSizeIsMin ==
    Len(messageQueue) = Min(queueLog.enqueues - Len(queueLog.returned), MaxSize)

\* C24: the queue holds the N records enqueued less those returned by
\* dequeue and dequeueBatch and those dropped on overflow, never more than
\* C; while nothing has been dropped that is min(N - dequeued, C).
QueueSizeAccounts ==
    /\ Len(messageQueue) = queueLog.enqueues - Len(queueLog.returned)
                              - Cardinality(queueLog.dropped)
    /\ Len(messageQueue) <= MaxSize
    /\ queueLog.dropped = {} => QueueSizeIsMin

\* a batch taken from a queue that had dropped a record on overflow
BatchTakenAfterOverflow ==
    /\ queueLog.last.op = "dequeueBatch"
    /\ Len(queueLog.last.result) = BatchSize
    /\ queueLog.dropped # {}
    /\ Len(messageQueue) > 0

Ascending(q) == \A i, j \in 1..Len(q) : i < j => q[i] < q[j]

\* C25: the records left in the queue are in enqueue order, the records
\* returned by dequeue and dequeueBatch came out in enqueue order, and every
\* record returned was enqueued before every record still queued.
QueueKeepsFifoOrder ==
    /\ Ascending(messageQueue)
    /\ Ascending(queueLog.returned)
    /\ \A i \in 1..Len(queueLog.returned) : \A j \in 1..Len(messageQueue) :
          queueLog.returned[i] < messageQueue[j]

\* dequeues before and after an overflow drop, records still queued
DequeuedAroundOverflow ==
    /\ Len(queueLog.returned) >= 2
    /\ \E d \in queueLog.dropped :
          queueLog.returned[1] < d /\ d < queueLog.returned[Len(queueLog.returned)]
    /\ Len(messageQueue) >= 2

\* C26: enqueue leaves the new record at the tail and at most maxSize records
\* in the queue; on a full queue it removes the oldest record and returns
\* false, otherwise it removes nothing and returns true.
EnqueueAdmitsNewRecord ==
    queueLog.last.op = "enqueue" =>
        LET before == queueLog.last.before
        IN /\ Len(messageQueue) <= MaxSize
           /\ IF Len(before) >= MaxSize
              THEN /\ messageQueue = Append(Tail(before), queueLog.last.message)
                   /\ ~queueLog.last.result
              ELSE /\ messageQueue = Append(before, queueLog.last.message)
                   /\ queueLog.last.result

\* an enqueue on a full queue
EnqueuedOnFullQueue ==
    /\ queueLog.last.op = "enqueue"
    /\ Len(queueLog.last.before) = MaxSize
    /\ ~queueLog.last.result

\* C27: a failure counted while Closed opens the breaker exactly when the
\* count reaches failureThreshold; nothing else opens a Closed breaker, a
\* Closed breaker has fewer failures than the threshold, and execute() on a
\* breaker that is Closed invokes the operation.
ClosedOpensAtThreshold ==
    [][/\ (circuitBreaker.state = "Closed"
             /\ \E k \in 1..MaxCalls : BreakerOperationFail(k))
          => /\ circuitBreaker'.failureCount = circuitBreaker.failureCount + 1
             /\ circuitBreaker'.state =
                   (IF circuitBreaker'.failureCount >= FailureThreshold
                    THEN "Open" ELSE "Closed")
       /\ (circuitBreaker.state = "Closed" /\ circuitBreaker'.state = "Open")
          => circuitBreaker'.failureCount = FailureThreshold
       /\ circuitBreaker'.state = "Closed"
          => circuitBreaker'.failureCount < FailureThreshold
       /\ (BreakerExecute /\ getState(circuitBreaker, now).state = "Closed")
          => producerCalls' = producerCalls + 1]_vars

\* a breaker opened by its failureThreshold-th failure
OpenedAtThreshold ==
    /\ circuitBreaker.state = "Open"
    /\ circuitBreaker.failureCount = FailureThreshold
    /\ producerCalls = FailureThreshold
    /\ sending = {}
    /\ circuitBreaker.successCount = 0

\* C28: a success while Half-Open closes the breaker, sets the failure count
\* to 0 and clears nextAttemptTime; a success while Closed changes nothing
\* but the success count, which it increments.
SuccessClosesHalfOpen ==
    [][(\E k \in 1..MaxCalls : BreakerOperationOk(k))
       => IF circuitBreaker.state = "Half-Open"
          THEN circuitBreaker' =
                  [circuitBreaker EXCEPT !.state = "Closed", !.failureCount = 0,
                                         !.nextAttemptTime = NoTime,
                                         !.successCount = @ + 1]
          ELSE circuitBreaker.state = "Closed"
               => circuitBreaker' = [circuitBreaker EXCEPT !.successCount = @ + 1]]_vars

\* a breaker closed by a successful trial, its window never reset
ClosedByTrial ==
    /\ circuitBreaker.state = "Closed"
    /\ circuitBreaker.failureCount = 0
    /\ circuitBreaker.successCount = 1
    /\ circuitBreaker.nextAttemptTime = NoTime
    /\ circuitBreaker.monitoringWindowStart = 0
    /\ producerCalls = FailureThreshold + 1
    /\ sending = {}

\* C29: every move into Open, from Closed or from Half-Open, sets
\* nextAttemptTime to now + resetTimeout * min(2^(failures - threshold), 8),
\* which is at most 8 * resetTimeout away.
OpenSetsCappedBackoff ==
    [][(circuitBreaker.state # "Open" /\ circuitBreaker'.state = "Open")
       => /\ circuitBreaker'.nextAttemptTime =
                now + ResetTimeout
                        * Min(2 ^ (circuitBreaker'.failureCount - FailureThreshold),
                              BackoffCap)
          /\ circuitBreaker'.nextAttemptTime - now <= BackoffCap * ResetTimeout]_vars

\* a breaker reopened with more failures than the cap covers
OpenedAtBackoffCap ==
    /\ circuitBreaker.state = "Open"
    /\ circuitBreaker.failureCount - FailureThreshold > 3
    /\ backoff.previous > 0
    /\ backoff.delay = BackoffCap * ResetTimeout
    /\ circuitBreaker.nextAttemptTime = now + backoff.delay

\* C30 as stated: the wait set by a move to Open is never shorter than the
\* wait set by the move before it, and never longer than 8 * resetTimeout.
BackoffNeverDecreases ==
    /\ backoff.previous > 0 => backoff.delay >= backoff.previous
    /\ backoff.delay <= BackoffCap * ResetTimeout

\* C30: the wait set by a move to Open is never shorter than the wait set by
\* the move before it unless the breaker closed between the two, and never
\* longer than 8 * resetTimeout.
BackoffGrowsUntilClosed ==
    /\ (backoff.previous > 0 /\ ~backoff.reclosed)
       => backoff.delay >= backoff.previous
    /\ backoff.delay <= BackoffCap * ResetTimeout

\* a failed trial that doubled the wait
BackoffDoubled ==
    /\ backoff.previous > 0
    /\ ~backoff.reclosed
    /\ backoff.delay = 2 * backoff.previous
    /\ circuitBreaker.state = "Open"

\* C31: a breaker call that finds monitoringPeriod elapsed since the window
\* start moves the window start to now and clears the success and failure
\* counts only if the breaker is Closed; in Open and Half-Open the counts
\* stay, and a call made before the period has elapsed changes none of them.
WindowResetClearsOnlyClosed ==
    [][(BreakerExecute \/ BreakerGetState)
       => IF now - circuitBreaker.monitoringWindowStart >= MonitoringPeriod
          THEN /\ circuitBreaker'.monitoringWindowStart = now
               /\ IF circuitBreaker.state = "Closed"
                  THEN /\ circuitBreaker'.failureCount = 0
                       /\ circuitBreaker'.successCount = 0
                  ELSE /\ circuitBreaker'.failureCount = circuitBreaker.failureCount
                       /\ circuitBreaker'.successCount = circuitBreaker.successCount
          ELSE /\ circuitBreaker'.monitoringWindowStart
                     = circuitBreaker.monitoringWindowStart
               /\ circuitBreaker'.failureCount = circuitBreaker.failureCount
               /\ circuitBreaker'.successCount = circuitBreaker.successCount]_vars

\* a window reset after the breaker opened, its failures still counted
WindowResetWhileOpen ==
    /\ circuitBreaker.state # "Closed"
    /\ circuitBreaker.failureCount = FailureThreshold
    /\ circuitBreaker.monitoringWindowStart
          > circuitBreaker.nextAttemptTime - ResetTimeout

\* C32: a disconnect() that has returned raised nothing and left the wrapper
\* not connected, whatever the library disconnect did.
DisconnectLeavesNotConnected ==
    wrapper.last.op = "disconnect"
    => wrapper.last.raised = {} /\ ~kafkaProducer.connected

\* C33: a connect, send or sendBatch ended by its timeout raises an error
\* that categorizeError puts in category TIMEOUT.
TimeoutSurfacesAsTimeout ==
    (wrapper.last.op \in {"connect", "send", "sendBatch"} /\ wrapper.last.timedOut)
    => categorizeError(wrapper.last.raised).category = "TIMEOUT"

\* C37: a wrapper that reports isConnected() holds a producer handle.
ConnectedHoldsProducer ==
    kafkaProducer.connected => kafkaProducer.producer

AtMostOneFlushTicker ==
    integration.timers <= 1

\* C36: once the integration service's shutdown() has returned, and until a
\* later 'server-started' signal, no flush ticker is live and no producer
\* connect or send is started.
PipelineStoppedAfterShutdown ==
    [][(integration.stopped /\ integration'.stopped)
       => /\ integration'.timers = 0
          /\ ~flushTimer'
          /\ producerCalls' = producerCalls]_vars

\* C38: while the breaker is Half-Open its trial operation is in flight, and
\* an execute() call made then does not invoke its operation: no step taken
\* from a Half-Open breaker starts another operation.
HalfOpenAdmitsOneTrial ==
    [][circuitBreaker.state = "Half-Open" => backoff'.inFlight <= backoff.inFlight]_vars

\* C39: in every reachable state of the breaker nextAttemptTime is defined
\* when the state is Open and undefined when the state is Closed.
NextAttemptTimeMatchesState ==
    /\ circuitBreaker.state = "Open" => circuitBreaker.nextAttemptTime # NoTime
    /\ circuitBreaker.state = "Closed" => circuitBreaker.nextAttemptTime = NoTime

\* the breaker is Open with an operation that was started earlier still in
\* flight, after another operation has succeeded
OpenWithOperationInFlight ==
    /\ circuitBreaker.state = "Open"
    /\ circuitBreaker.successCount > 0
    /\ backoff.inFlight > 0

====
